---- MODULE Spec2Model ----
(***************************************************************************)
(* Model of pdfman.py: text normalisation, page search, page-range         *)
(* parsing and page-range extraction, and the command line that drives     *)
(* them.  A Python str is a sequence of one-character strings.             *)
(***************************************************************************)
EXTENDS Integers, Sequences, FiniteSets, TLC

VARIABLES
    nIn,      \* normalize: the argument of the first call (an optional str)
    nOut,     \* normalize: the value the first call returned
    nIn2,     \* normalize: the argument of the second call
    nOut2,    \* normalize: the value the second call returned
    nPc,      \* normalize: which calls have been made
    pR,       \* parse_range: the argument r
    pTotal,   \* parse_range: the argument total
    pRes,     \* parse_range: what the call returned or raised
    pPc,      \* parse_range: whether the call has been made
    argv,     \* the command line after the program name
    world,    \* the file the path names, and the output directory at start
    fs,       \* the output files: name -> the pages written
    pc,       \* where the process is
    exitCode, \* the exit status, once the process has exited
    called,   \* which of search_pdf and split_pdf main has called
    console,  \* what has been printed, in order
    prompted, \* whether the filename prompt has been issued
    reader,   \* reader.pages
    nq,       \* search_pdf: normalized_query
    idx,      \* the loop variable: i, or page_index
    visited,  \* search_pdf: the page numbers whose text has been extracted
    matches,  \* search_pdf: matches
    range,    \* split_pdf: (start, end)
    output,   \* split_pdf: the name of the output file
    writer    \* split_pdf: the pages added to the writer

nvars == <<nIn, nOut, nIn2, nOut2, nPc>>

pvars == <<pR, pTotal, pRes, pPc>>

mvars == <<argv, world, fs, pc, exitCode, called, console, prompted, reader,
           nq, idx, visited, matches, range, output, writer>>

vars == <<nIn, nOut, nIn2, nOut2, nPc, pR, pTotal, pRes, pPc,
          argv, world, fs, pc, exitCode, called, console, prompted, reader,
          nq, idx, visited, matches, range, output, writer>>

----------------------------------------------------------------------------
(* Bounds                                                                   *)

MaxTextLen == 5

MaxRangeLen == 5

MaxPages == 3

----------------------------------------------------------------------------
(* Python values                                                            *)

\* An Optional[str]: None, or a str.
NoneVal == [isNone |-> TRUE, str |-> <<>>]

Str(s) == [isNone |-> FALSE, str |-> s]

\* The characters texts are built from: a lowercase and an uppercase letter,
\* and the three kinds of whitespace a page's extracted text holds.
TextChars == {"a", "B", " ", "\t", "\n"}

Whitespace == {" ", "\t", "\n"}

RECURSIVE SeqsUpTo(_, _)
SeqsUpTo(S, n) ==
    IF n = 0 THEN {<<>>}
    ELSE LET shorter == SeqsUpTo(S, n - 1)
         IN  shorter \cup {Append(s, c) : s \in {t \in shorter : Len(t) = n - 1}, c \in S}

\* str.lower() on one character.
LowerChar(c) ==
    CASE c = "A" -> "a"
      [] c = "B" -> "b"
      [] OTHER -> c

\* str.lower()
Lower(s) == [i \in 1..Len(s) |-> LowerChar(s[i])]

\* The text after the maximal run of whitespace that starts s.
RECURSIVE SkipWs(_)
SkipWs(s) ==
    IF s # <<>> /\ Head(s) \in Whitespace THEN SkipWs(Tail(s)) ELSE s

\* Variant: re.sub(r"\s\s", " ", s), which joins whitespace only in pairs.
RECURSIVE ReSubWsNoPlus(_)
ReSubWsNoPlus(s) ==
    IF s = <<>> THEN <<>>
    ELSE IF Head(s) \in Whitespace /\ Len(s) >= 2 /\ s[2] \in Whitespace
         THEN <<" ">> \o ReSubWsNoPlus(Tail(Tail(s)))
         ELSE <<Head(s)>> \o ReSubWsNoPlus(Tail(s))

\* re.sub(r"\s+", " ", s): every maximal whitespace run becomes one space.
RECURSIVE ReSubWs(_)
ReSubWs(s) ==
    IF s = <<>> THEN <<>>
    ELSE IF Head(s) \in Whitespace
         THEN <<" ">> \o ReSubWs(SkipWs(s))
         ELSE <<Head(s)>> \o ReSubWs(Tail(s))

\* str.rstrip()
RECURSIVE RStrip(_)
RStrip(s) ==
    IF s # <<>> /\ s[Len(s)] \in Whitespace
    THEN RStrip(SubSeq(s, 1, Len(s) - 1))
    ELSE s

\* Variant: str.lstrip() in place of str.strip().
StripLeftOnly(s) == SkipWs(s)

\* str.strip()

Strip(s) == RStrip(SkipWs(s))

\* normalize(text)
normalize(text) ==
    IF text.isNone \/ text.str = <<>> THEN <<>>
    ELSE Lower(Strip(ReSubWs(text.str)))

\* The command line is not being exercised.
MainIdle ==
    /\ argv = <<>>
    /\ world = [exists |-> FALSE, valid |-> FALSE, pages |-> <<>>, old |-> FALSE]
    /\ fs = <<>>
    /\ pc = "idle"
    /\ exitCode = 0
    /\ called = "none"
    /\ console = <<>>
    /\ prompted = FALSE
    /\ reader = <<>>
    /\ nq = <<>>
    /\ idx = 0
    /\ visited = <<>>
    /\ matches = <<>>
    /\ range = <<0, 0>>
    /\ output = <<>>
    /\ writer = <<>>

\* normalize is not being exercised.
NormIdle ==
    /\ nIn = NoneVal
    /\ nOut = <<>>
    /\ nIn2 = NoneVal
    /\ nOut2 = <<>>
    /\ nPc = "idle"

----------------------------------------------------------------------------
(* parse_range                                                              *)

Digits == {"0", "1", "2", "3"}

DigitVal(c) ==
    CASE c = "0" -> 0
      [] c = "1" -> 1
      [] c = "2" -> 2
      [] c = "3" -> 3
      [] OTHER -> 0

\* The number a string of decimal digits writes.
RECURSIVE DecVal(_)
DecVal(ds) ==
    IF ds = <<>> THEN 0
    ELSE 10 * DecVal(SubSeq(ds, 1, Len(ds) - 1)) + DigitVal(ds[Len(ds)])

\* r.split("-"): the pieces of r between its dashes.
RECURSIVE SplitDashAcc(_, _, _)
SplitDashAcc(s, cur, acc) ==
    IF s = <<>> THEN Append(acc, cur)
    ELSE IF Head(s) = "-"
         THEN SplitDashAcc(Tail(s), <<>>, Append(acc, cur))
         ELSE SplitDashAcc(Tail(s), Append(cur, Head(s)), acc)

SplitDash(r) == SplitDashAcc(r, <<>>, <<>>)

\* int(s) once the surrounding whitespace is dropped: one sign is accepted,
\* and what is left must be one or more digits, else ValueError.
PyIntNoStrip(s) ==
    LET body == IF s # <<>> /\ Head(s) \in {"+", "-"} THEN Tail(s) ELSE s
        neg == s # <<>> /\ Head(s) = "-"
    IN  IF body # <<>> /\ \A i \in 1..Len(body) : body[i] \in Digits
        THEN [ok |-> TRUE, val |-> IF neg THEN 0 - DecVal(body) ELSE DecVal(body)]
        ELSE [ok |-> FALSE, val |-> 0]

\* int(s)
PyInt(s) == PyIntNoStrip(Strip(s))

Raise(kind) == [ok |-> FALSE, exc |-> "ValueError", kind |-> kind, start |-> 0, end |-> 0]

Return(start, end) == [ok |-> TRUE, exc |-> "", kind |-> "", start |-> start, end |-> end]

\* Variant: the checks without the one against the document length.
CheckBoundsNoTotal(start, end, total) ==
    IF start < 1 \/ end < 1 THEN Raise("pages_ge_1")
    ELSE IF start > end THEN Raise("start_gt_end")
    ELSE Return(start, end)

\* The checks on the two integers, in the order the function makes them.
CheckBounds(start, end, total) ==
    IF start < 1 \/ end < 1 THEN Raise("pages_ge_1")
    ELSE IF start > end THEN Raise("start_gt_end")
    ELSE IF end > total THEN Raise("exceeds_length")
    ELSE Return(start, end)

\* parse_range(r, total).  The kinds "unpack" and "invalid_literal" are the
\* ValueErrors that the tuple assignment and int() raise themselves.
parse_range(r, total) ==
    IF \A i \in 1..Len(r) : r[i] # "-" THEN Raise("wrong_format")
    ELSE LET parts == SplitDash(r)
         IN  IF Len(parts) # 2 THEN Raise("unpack")
             ELSE IF ~PyInt(parts[1]).ok \/ ~PyInt(parts[2]).ok
                  THEN Raise("invalid_literal")
                  ELSE CheckBounds(PyInt(parts[1]).val, PyInt(parts[2]).val, total)

RangeChars == {"0", "1", "2", "-", "+", "a", " "}

RangeStrings == SeqsUpTo(RangeChars, MaxRangeLen)

Totals == {0, 1, 2, 12}

NoResult == [ok |-> FALSE, exc |-> "", kind |-> "", start |-> 0, end |-> 0]

\* parse_range is not being exercised.
ParseIdle ==
    /\ pR = <<>>
    /\ pTotal = 0
    /\ pRes = NoResult
    /\ pPc = "idle"

InitParse ==
    /\ pR \in RangeStrings
    /\ pTotal \in Totals
    /\ pRes = NoResult
    /\ pPc = "start"
    /\ NormIdle
    /\ MainIdle

ParseCall ==
    /\ pPc = "start"
    /\ pRes' = parse_range(pR, pTotal)
    /\ pPc' = "done"
    /\ UNCHANGED <<pR, pTotal>>
    /\ UNCHANGED nvars
    /\ UNCHANGED mvars

NextParse == ParseCall

SpecParse == InitParse /\ [][NextParse]_vars

----------------------------------------------------------------------------
(* normalize, called on every text up to MaxTextLen and called again on its *)
(* own result or on a text that differs from the first only in letter case  *)
(* or in the kind or length of a whitespace run                             *)

Texts == {NoneVal} \cup {Str(s) : s \in SeqsUpTo(TextChars, MaxTextLen)}

SwapCase(c) ==
    CASE c = "a" -> "A"
      [] c = "A" -> "a"
      [] c = "b" -> "B"
      [] c = "B" -> "b"
      [] OTHER -> c

\* The texts one edit away from s: one letter in the other case, one
\* whitespace character of another kind, one whitespace run a character longer
\* or (when longer than one) a character shorter.
Variants(s) ==
    {[s EXCEPT ![i] = SwapCase(s[i])] : i \in {j \in 1..Len(s) : s[j] \notin Whitespace}}
    \cup {[s EXCEPT ![i] = w] : i \in {j \in 1..Len(s) : s[j] \in Whitespace}, w \in Whitespace}
    \cup {SubSeq(s, 1, i) \o <<w>> \o SubSeq(s, i + 1, Len(s)) :
            i \in {j \in 1..Len(s) : s[j] \in Whitespace}, w \in Whitespace}
    \cup {SubSeq(s, 1, i - 1) \o SubSeq(s, i + 1, Len(s)) :
            i \in {j \in 2..Len(s) : s[j] \in Whitespace /\ s[j - 1] \in Whitespace}}

InitNorm ==
    /\ nIn \in Texts
    /\ nOut = <<>>
    /\ nIn2 = NoneVal
    /\ nOut2 = <<>>
    /\ nPc = "start"
    /\ ParseIdle
    /\ MainIdle

NormCall ==
    /\ nPc = "start"
    /\ nOut' = normalize(nIn)
    /\ nPc' = "once"
    /\ UNCHANGED <<nIn, nIn2, nOut2>>
    /\ UNCHANGED pvars
    /\ UNCHANGED mvars

NormAgain ==
    /\ nPc = "once"
    /\ nIn2' = Str(nOut)
    /\ nOut2' = normalize(Str(nOut))
    /\ nPc' = "twice"
    /\ UNCHANGED <<nIn, nOut>>
    /\ UNCHANGED pvars
    /\ UNCHANGED mvars

NormVariant ==
    /\ nPc = "once"
    /\ ~nIn.isNone
    /\ \E y \in Variants(nIn.str) :
         /\ nIn2' = Str(y)
         /\ nOut2' = normalize(Str(y))
    /\ nPc' = "variant"
    /\ UNCHANGED <<nIn, nOut>>
    /\ UNCHANGED pvars
    /\ UNCHANGED mvars

NextNorm == NormCall \/ NormAgain \/ NormVariant

SpecNorm == InitNorm /\ [][NextNorm]_vars

----------------------------------------------------------------------------
(* The command line: main, search_pdf, split_pdf                            *)

Search == <<"s", "e", "a", "r", "c", "h">>

Split == <<"s", "p", "l", "i", "t">>

\* A command that is neither search nor split.
Merge == <<"m", "e", "r", "g", "e">>

HelpFlag == <<"-", "h">>

PdfPath == <<"i", "n", ".", "p", "d", "f">>

\* The queries the command line is run with: empty, whitespace only, one
\* letter, two words, and a word no page holds.
Queries ==
    { <<>>, <<" ", "\n">>, <<"A">>, <<"b", "\n", " ", "A">>, <<"a", "b">> }

\* The texts extract_text() gives: None, empty, one word, two words.
PageTexts ==
    { NoneVal, Str(<<>>), Str(<<"a">>), Str(<<"B", " ", "\t", "a">>) }

\* The range arguments the command line is run with.
RangeArgs ==
    { <<"1", "-", "2">>, <<"2", "-", "3">>, <<"1", "-", "3">>, <<"2", "-", "2">>,
      <<" ", "1", "-", "+", "2">>,
      <<"0", "-", "1">>, <<"2", "-", "1">>, <<"1", "-", "1", "2">>,
      <<"a">>, <<>>, <<"a", "-", "1">>, <<"1", "-">>, <<"1", "-", "2", "-", "3">>,
      <<"-", "1", "-", "2">> }

\* The answers to the filename prompt.
OutputNames == { <<"o", "u", "t">> }

Argvs ==
    { <<>>, <<HelpFlag>>, <<Merge>>, <<Search>>, <<Split, PdfPath>> }
    \cup { <<Search, PdfPath, q>> : q \in Queries }
    \cup { <<Split, PdfPath, r>> : r \in RangeArgs }

\* The documents of up to MaxPages pages; a page is its number in the
\* document and the text extract_text() gives for it.
Documents ==
    UNION { { [k \in 1..n |-> [num |-> k, text |-> t[k]]] : t \in [1..n -> PageTexts] }
            : n \in 0..MaxPages }

\* What the path names: nothing, a file the library rejects, or a document.
Worlds ==
    { [exists |-> FALSE, valid |-> FALSE, pages |-> <<>>, old |-> o] : o \in BOOLEAN }
    \cup { [exists |-> TRUE, valid |-> FALSE, pages |-> <<>>, old |-> o] : o \in BOOLEAN }
    \cup { [exists |-> TRUE, valid |-> TRUE, pages |-> d, old |-> o] :
             d \in Documents, o \in BOOLEAN }

\* f"{output_name}_p_{start}-{end}.pdf"
OutputFile(output_name, start, end) == <<output_name, start, end>>

\* What an output file left by an earlier run holds.
OldPages == <<[num |-> 0, text |-> NoneVal]>>

\* The output directory at start: empty, or holding a file under the name a
\* split of pages 1-2 will write.
FsOf(w) ==
    IF w.old THEN <<[name |-> OutputFile(<<"o", "u", "t">>, 1, 2), pages |-> OldPages]>>
    ELSE <<>>

\* open(output, "wb") and writer.write(f): the file is created, or replaced.
WriteFile(files, name, pages) ==
    SelectSeq(files, LAMBDA f : f.name # name) \o <<[name |-> name, pages |-> pages]>>

\* argparse takes an argument for an option when it starts with a dash, is
\* longer than the dash, is no negative number and holds no space.
OptionLike(tok) ==
    /\ Len(tok) >= 2
    /\ tok[1] = "-"
    /\ ~(\A i \in 2..Len(tok) : tok[i] \in Digits)
    /\ \A i \in 1..Len(tok) : tok[i] # " "

\* Variant: the subparsers added with required=True.
ParseArgsRequired(av) ==
    IF av = <<>> THEN [exit |-> 2, printed |-> "usage_error", command |-> "", args |-> <<>>]
    ELSE IF av[1] = HelpFlag
    THEN [exit |-> 0, printed |-> "help", command |-> "", args |-> <<>>]
    ELSE IF av[1] \notin {Search, Split}
    THEN [exit |-> 2, printed |-> "usage_error", command |-> "", args |-> <<>>]
    ELSE IF Len(av) # 3 \/ \E i \in 2..Len(av) : OptionLike(av[i])
    THEN [exit |-> 2, printed |-> "usage_error", command |-> "", args |-> <<>>]
    ELSE [exit |-> -1, printed |-> "",
          command |-> IF av[1] = Search THEN "search" ELSE "split",
          args |-> Tail(av)]

\* parser.parse_args() with the subparsers search and split, two positional
\* arguments each: the namespace, or the exit argparse makes itself.
ParseArgs(av) ==
    IF av = <<>> THEN [exit |-> -1, printed |-> "", command |-> "None", args |-> <<>>]
    ELSE IF av[1] = HelpFlag
    THEN [exit |-> 0, printed |-> "help", command |-> "", args |-> <<>>]
    ELSE IF av[1] \notin {Search, Split}
    THEN [exit |-> 2, printed |-> "usage_error", command |-> "", args |-> <<>>]
    ELSE IF Len(av) # 3 \/ \E i \in 2..Len(av) : OptionLike(av[i])
    THEN [exit |-> 2, printed |-> "usage_error", command |-> "", args |-> <<>>]
    ELSE [exit |-> -1, printed |-> "",
          command |-> IF av[1] = Search THEN "search" ELSE "split",
          args |-> Tail(av)]

\* Variant: an empty needle is never found.
IsSubstrNonEmpty(needle, haystack) ==
    /\ needle # <<>>
    /\ \E i \in 0..(Len(haystack) - Len(needle)) :
          SubSeq(haystack, i + 1, i + Len(needle)) = needle

\* needle in haystack
IsSubstr(needle, haystack) ==
    \E i \in 0..(Len(haystack) - Len(needle)) :
        SubSeq(haystack, i + 1, i + Len(needle)) = needle

\* x or ""
OrEmpty(x) == IF x.isNone \/ x.str = <<>> THEN Str(<<>>) ELSE x

\* Variant: the page text is not normalized.
PageMatchesRaw(query, text) == IsSubstr(query, OrEmpty(text).str)

\* normalized_query in normalize(text), for text = extract_text() or ""
PageMatches(query, text) == IsSubstr(query, normalize(OrEmpty(text)))

\* The two checks that open the document, in search_pdf and in split_pdf.
OpenPdf(w) ==
    IF ~w.exists THEN "file_not_found"
    ELSE IF ~w.valid THEN "error_opening"
    ELSE "ok"

\* Variant: no match ends the process with status 1.
SearchOutcomeStrict(found) ==
    [msg |-> IF found = <<>> THEN "not_found" ELSE "found",
     code |-> IF found = <<>> THEN 1 ELSE 0]

\* The end of search_pdf: the report, and the status main then exits with.
SearchOutcome(found) ==
    [msg |-> IF found = <<>> THEN "not_found" ELSE "found", code |-> 0]

\* Variant: only the errors parse_range raises itself are caught.
RangeOutcomeOwnErrors(res) ==
    IF res.ok THEN [msg |-> "splitting", code |-> -1]
    ELSE IF res.kind \in {"unpack", "invalid_literal"}
    THEN [msg |-> "traceback", code |-> 1]
    ELSE [msg |-> "range_error", code |-> 1]

\* What split_pdf does with the result of parse_range: every exception is
\* caught, printed and followed by sys.exit(1).
RangeOutcome(res) ==
    IF res.ok THEN [msg |-> "splitting", code |-> -1]
    ELSE [msg |-> "range_error", code |-> 1]

\* Variant: the loop starts at start.
FirstIndexOneBased(start) == start

\* The first index of range(start - 1, end).
FirstIndex(start) == start - 1

Init ==
    /\ argv \in Argvs
    /\ world \in Worlds
    /\ fs = FsOf(world)
    /\ pc = "main"
    /\ exitCode = -1
    /\ called = "none"
    /\ console = <<>>
    /\ prompted = FALSE
    /\ reader = <<>>
    /\ nq = <<>>
    /\ idx = 0
    /\ visited = <<>>
    /\ matches = <<>>
    /\ range = <<0, 0>>
    /\ output = <<>>
    /\ writer = <<>>
    /\ NormIdle
    /\ ParseIdle

Exit(code, msg) ==
    /\ pc' = "exited"
    /\ exitCode' = code
    /\ console' = Append(console, msg)

\* main(): parse the command line and dispatch.
Main ==
    /\ pc = "main"
    /\ LET args == ParseArgs(argv)
       IN  IF args.exit # -1
           THEN Exit(args.exit, args.printed) /\ UNCHANGED called
           ELSE IF args.command = "search"
           THEN /\ pc' = "search_open"
                /\ called' = "search_pdf"
                /\ UNCHANGED <<exitCode, console>>
           ELSE IF args.command = "split"
           THEN /\ pc' = "split_open"
                /\ called' = "split_pdf"
                /\ UNCHANGED <<exitCode, console>>
           ELSE Exit(0, "help") /\ UNCHANGED called
    /\ UNCHANGED <<argv, world, fs, prompted, reader, nq, idx, visited, matches,
                   range, output, writer>>
    /\ UNCHANGED <<nvars, pvars>>

\* search_pdf up to the loop.
SearchOpen ==
    /\ pc = "search_open"
    /\ IF OpenPdf(world) # "ok"
       THEN /\ Exit(1, OpenPdf(world))
            /\ UNCHANGED <<reader, nq>>
       ELSE /\ reader' = world.pages
            /\ nq' = normalize(Str(argv[3]))
            /\ console' = Append(console, "searching")
            /\ pc' = "search_scan"
            /\ UNCHANGED exitCode
    /\ matches' = <<>>
    /\ idx' = 0
    /\ UNCHANGED <<argv, world, fs, called, prompted, visited, range, output, writer>>
    /\ UNCHANGED <<nvars, pvars>>

\* One iteration of the loop of search_pdf.
SearchScanPage ==
    /\ pc = "search_scan"
    /\ idx < Len(reader)
    /\ visited' = Append(visited, reader[idx + 1].num)
    /\ matches' = IF PageMatches(nq, reader[idx + 1].text)
                  THEN Append(matches, idx + 1)
                  ELSE matches
    /\ idx' = idx + 1
    /\ UNCHANGED <<argv, world, fs, pc, exitCode, called, console, prompted, reader,
                   nq, range, output, writer>>
    /\ UNCHANGED <<nvars, pvars>>

\* The report of search_pdf, and the return through main.
SearchReport ==
    /\ pc = "search_scan"
    /\ idx = Len(reader)
    /\ Exit(SearchOutcome(matches).code, SearchOutcome(matches).msg)
    /\ UNCHANGED <<argv, world, fs, called, prompted, reader, nq, idx, visited,
                   matches, range, output, writer>>
    /\ UNCHANGED <<nvars, pvars>>

\* split_pdf up to the call of parse_range.
SplitOpen ==
    /\ pc = "split_open"
    /\ IF OpenPdf(world) # "ok"
       THEN /\ Exit(1, OpenPdf(world))
            /\ UNCHANGED reader
       ELSE /\ reader' = world.pages
            /\ pc' = "split_parse"
            /\ UNCHANGED <<exitCode, console>>
    /\ UNCHANGED <<argv, world, fs, called, prompted, nq, idx, visited, matches,
                   range, output, writer>>
    /\ UNCHANGED <<nvars, pvars>>

\* split_pdf: parse_range inside its try.
SplitParse ==
    /\ pc = "split_parse"
    /\ LET res == parse_range(argv[3], Len(reader))
       IN  IF RangeOutcome(res).code # -1
           THEN /\ Exit(RangeOutcome(res).code, RangeOutcome(res).msg)
                /\ UNCHANGED range
           ELSE /\ range' = <<res.start, res.end>>
                /\ pc' = "split_prompt"
                /\ UNCHANGED <<exitCode, console>>
    /\ UNCHANGED <<argv, world, fs, called, prompted, reader, nq, idx, visited,
                   matches, output, writer>>
    /\ UNCHANGED <<nvars, pvars>>

\* split_pdf: the prompt, the output name, the empty writer.
SplitPrompt ==
    /\ pc = "split_prompt"
    /\ prompted' = TRUE
    /\ \E output_name \in OutputNames :
          output' = OutputFile(output_name, range[1], range[2])
    /\ writer' = <<>>
    /\ console' = Append(console, "splitting")
    /\ idx' = FirstIndex(range[1])
    /\ pc' = "split_extract"
    /\ UNCHANGED <<argv, world, fs, exitCode, called, reader, nq, visited, matches, range>>
    /\ UNCHANGED <<nvars, pvars>>

\* One iteration of the loop of split_pdf.
SplitAddPage ==
    /\ pc = "split_extract"
    /\ idx < range[2]
    /\ writer' = Append(writer, reader[idx + 1])
    /\ idx' = idx + 1
    /\ UNCHANGED <<argv, world, fs, pc, exitCode, called, console, prompted, reader,
                   nq, visited, matches, range, output>>
    /\ UNCHANGED <<nvars, pvars>>

\* split_pdf: the output file is written, and the return through main.
SplitWrite ==
    /\ pc = "split_extract"
    /\ idx >= range[2]
    /\ fs' = WriteFile(fs, output, writer)
    /\ Exit(0, "saved")
    /\ UNCHANGED <<argv, world, called, prompted, reader, nq, idx, visited, matches,
                   range, output, writer>>
    /\ UNCHANGED <<nvars, pvars>>

Next ==
    \/ Main
    \/ SearchOpen
    \/ SearchScanPage
    \/ SearchReport
    \/ SplitOpen
    \/ SplitParse
    \/ SplitPrompt
    \/ SplitAddPage
    \/ SplitWrite

Spec == Init /\ [][Next]_vars

----------------------------------------------------------------------------
(* Properties of the command line                                           *)

Last(q) == q[Len(q)]

OneToN(n) == [k \in 1..n |-> k]

\* search_pdf has left its loop.
SearchScanned ==
    /\ called = "search_pdf"
    /\ \/ pc = "search_scan" /\ idx = Len(reader)
       \/ pc = "exited" /\ OpenPdf(world) = "ok"

\* The text of page p of the document, an absent text read as the empty one.
TextOfPage(p) ==
    IF world.pages[p].text.isNone THEN <<>> ELSE world.pages[p].text.str

\* C3: when search_pdf has scanned a document of N pages, matches is
\* strictly ascending and holds p in 1..N exactly when normalize(query) is a
\* substring of normalize(text of page p), an absent text counting as empty;
\* the pages were visited once each in the order 1..N; and matches never
\* holds a number outside 1..N.
C3_SearchMatches ==
    /\ \A j \in 1..Len(matches) : matches[j] \in 1..Len(world.pages)
    /\ SearchScanned =>
        /\ \A j \in 1..(Len(matches) - 1) : matches[j] < matches[j + 1]
        /\ \A p \in 1..Len(world.pages) :
              (\E j \in 1..Len(matches) : matches[j] = p)
                  <=> IsSubstr(normalize(Str(argv[3])), normalize(Str(TextOfPage(p))))
        /\ visited = OneToN(Len(world.pages))

C3_Witness ==
    /\ pc = "exited"
    /\ called = "search_pdf"
    /\ Len(world.pages) = MaxPages
    /\ argv[3] = <<"b", "\n", " ", "A">>
    /\ matches = <<1, MaxPages>>
    /\ world.pages[2].text = Str(<<"a">>)

\* C4: the file split_pdf writes for a range parse_range validates to
\* (start, end) holds end - start + 1 pages, the k-th being the source's
\* page start + k - 1; and split_pdf writes it whenever the document opens
\* and the range is valid.
C4_SplitPages ==
    (pc = "exited" /\ called = "split_pdf" /\ OpenPdf(world) = "ok") =>
        LET res == parse_range(argv[3], Len(world.pages))
            written == SelectSeq(fs, LAMBDA f : f.name = output)
        IN  /\ res.ok <=> Last(console) = "saved"
            /\ res.ok =>
                /\ Len(written) = 1
                /\ Len(written[1].pages) = res.end - res.start + 1
                /\ \A k \in 1..Len(written[1].pages) :
                      /\ written[1].pages[k] = world.pages[res.start + k - 1]
                      /\ written[1].pages[k].num = res.start + k - 1

C4_Witness ==
    /\ pc = "exited"
    /\ Last(console) = "saved"
    /\ Len(world.pages) = MaxPages
    /\ argv[3] = <<"2", "-", "3">>
    /\ Len(fs) = 2
    /\ Len(Last(fs).pages) = 2

\* C5: search_pdf ends the process with a nonzero status, no page scanned,
\* when the path does not exist or the library rejects the file; when the
\* document opens and no page matches it reports "not found" and the
\* process ends with status zero.
C5_SearchExit ==
    (pc = "exited" /\ called = "search_pdf") =>
        /\ OpenPdf(world) # "ok" =>
              (exitCode # 0 /\ visited = <<>> /\ console = <<OpenPdf(world)>>)
        /\ (OpenPdf(world) = "ok" /\ matches = <<>>) =>
              (Last(console) = "not_found" /\ exitCode = 0)

C5_Witness ==
    /\ pc = "exited"
    /\ called = "search_pdf"
    /\ Len(world.pages) = MaxPages
    /\ visited = OneToN(MaxPages)
    /\ matches = <<>>
    /\ Last(console) = "not_found"
    /\ exitCode = 0

\* split_pdf was given a missing path, a file the library rejects or a
\* range parse_range rejects.
SplitInputBad ==
    \/ OpenPdf(world) # "ok"
    \/ ~parse_range(argv[3], Len(world.pages)).ok

\* C6: when split_pdf is given a missing path, a file the library rejects
\* or a range parse_range rejects, it goes no further than the range check,
\* prints one user-facing message and exits with a nonzero status; the
\* filename prompt is never issued and no output file is created or
\* overwritten.
C6_SplitErrors ==
    (called = "split_pdf" /\ SplitInputBad) =>
        /\ pc \in {"split_open", "split_parse", "exited"}
        /\ ~prompted
        /\ fs = FsOf(world)
        /\ pc = "exited" =>
              /\ exitCode # 0
              /\ \/ console = <<"file_not_found">> /\ ~world.exists
                 \/ console = <<"error_opening">> /\ world.exists /\ ~world.valid
                 \/ console = <<"range_error">> /\ OpenPdf(world) = "ok"

C6_Witness ==
    /\ pc = "exited"
    /\ called = "split_pdf"
    /\ argv[3] = <<"1", "-", "2", "-", "3">>
    /\ Len(world.pages) = MaxPages
    /\ world.old
    /\ console = <<"range_error">>
    /\ exitCode = 1

\* C7 as stated: with no arguments, or with a command other than search or
\* split, main prints the usage help, runs neither search_pdf nor split_pdf,
\* and the process exits with status zero.
C7_HelpExitsZero ==
    (pc = "exited" /\ (argv = <<>> \/ argv[1] \notin {Search, Split})) =>
        /\ console = <<"help">>
        /\ called = "none"
        /\ exitCode = 0

\* C7 as amended: with no arguments main prints the usage help, runs
\* neither search_pdf nor split_pdf, and the process exits with status zero;
\* with a first argument that is no option and neither search nor split,
\* the argument parser prints a usage error, neither function runs, and the
\* process exits with status 2.
C7_HelpOrUsageError ==
    /\ (argv = <<>> \/ argv[1] \notin {Search, Split}) => called = "none"
    /\ (pc = "exited" /\ argv = <<>>) =>
          (console = <<"help">> /\ exitCode = 0)
    /\ (pc = "exited" /\ argv # <<>> /\ argv[1] \notin {Search, Split, HelpFlag}) =>
          (console = <<"usage_error">> /\ exitCode = 2)

C7_Witness ==
    /\ pc = "exited"
    /\ argv = <<Merge>>
    /\ console = <<"usage_error">>
    /\ exitCode = 2

\* C10: when the query normalizes to the empty string, search_pdf on a
\* document of N pages reports every page 1..N as a match, pages with empty
\* or absent text included, and reports "not found" only when N = 0.
C10_EmptyQueryMatchesAll ==
    (SearchScanned /\ normalize(Str(argv[3])) = <<>>) =>
        /\ matches = OneToN(Len(world.pages))
        /\ pc = "exited" =>
              Last(console) = (IF Len(world.pages) = 0 THEN "not_found" ELSE "found")

C10_Witness ==
    /\ pc = "exited"
    /\ called = "search_pdf"
    /\ argv[3] = <<" ", "\n">>
    /\ Len(world.pages) = MaxPages
    /\ world.pages[1].text = NoneVal
    /\ world.pages[2].text = Str(<<>>)
    /\ matches = OneToN(MaxPages)
    /\ Last(console) = "found"

----------------------------------------------------------------------------
(* Properties of parse_range                                                *)

\* s writes an integer: optional whitespace, an optional sign, one or more
\* digits, optional whitespace.
IntLiteral(s) ==
    \E a \in 1..Len(s), b \in 1..Len(s) :
        /\ a <= b
        /\ \A i \in 1..(a - 1) : s[i] \in Whitespace
        /\ \A i \in (b + 1)..Len(s) : s[i] \in Whitespace
        /\ \/ \A i \in a..b : s[i] \in Digits
           \/ /\ s[a] \in {"+", "-"}
              /\ a < b
              /\ \A i \in (a + 1)..b : s[i] \in Digits

IsDigit(c) == c \in Digits

\* The integer an IntLiteral writes.
IntLiteralVal(s) ==
    LET n == DecVal(SelectSeq(s, IsDigit))
    IN  IF \E i \in 1..Len(s) : s[i] = "-" THEN 0 - n ELSE n

LeftOf(r, i) == SubSeq(r, 1, i - 1)

RightOf(r, i) == SubSeq(r, i + 1, Len(r))

\* The dashes of r that have an integer on each side.
Cuts(r) ==
    {i \in 1..Len(r) : r[i] = "-" /\ IntLiteral(LeftOf(r, i)) /\ IntLiteral(RightOf(r, i))}

\* C1: parse_range(r, total) returns a pair exactly when r is <int>-<int>
\* with 1 <= start <= end <= total, the pair is those two integers, and for
\* every other r it raises a ValueError and returns nothing.  <int> is a
\* literal int() accepts.
C1_ParseRangeContract ==
    pPc = "done" =>
        LET good == {i \in Cuts(pR) :
                        /\ 1 <= IntLiteralVal(LeftOf(pR, i))
                        /\ IntLiteralVal(LeftOf(pR, i)) <= IntLiteralVal(RightOf(pR, i))
                        /\ IntLiteralVal(RightOf(pR, i)) <= pTotal}
        IN  /\ pRes.ok <=> good # {}
            /\ pRes.ok => \A i \in good :
                            /\ pRes.start = IntLiteralVal(LeftOf(pR, i))
                            /\ pRes.end = IntLiteralVal(RightOf(pR, i))
            /\ ~pRes.ok => pRes.exc = "ValueError"

C1_Witness ==
    /\ pPc = "done"
    /\ pRes.ok
    /\ pRes.start = 2
    /\ pRes.end = 12
    /\ pR = <<"2", "-", "1", "2">>

\* C2: every failure of parse_range is one of the four validation errors and
\* names a condition that is violated: wrong-format exactly when r is not
\* <int>-<int>, pages-must-be->=1 only when start < 1 or end < 1,
\* start-greater-than-end only when start > end, exceeds-document-length
\* only when end > total.
C2_FourErrorKinds ==
    (pPc = "done" /\ ~pRes.ok) =>
        /\ pRes.kind \in {"wrong_format", "pages_ge_1", "start_gt_end", "exceeds_length"}
        /\ pRes.kind = "wrong_format" <=> Cuts(pR) = {}
        /\ pRes.kind = "pages_ge_1" =>
              \E i \in Cuts(pR) : \/ IntLiteralVal(LeftOf(pR, i)) < 1
                                  \/ IntLiteralVal(RightOf(pR, i)) < 1
        /\ pRes.kind = "start_gt_end" =>
              \E i \in Cuts(pR) : IntLiteralVal(LeftOf(pR, i)) > IntLiteralVal(RightOf(pR, i))
        /\ pRes.kind = "exceeds_length" =>
              \E i \in Cuts(pR) : IntLiteralVal(RightOf(pR, i)) > pTotal

----------------------------------------------------------------------------
(* Properties of normalize                                                  *)

Upper == {"A", "B"}

\* The maximal runs of non-whitespace characters of s, in order.
RECURSIVE WordsAcc(_, _, _)
WordsAcc(s, cur, acc) ==
    IF s = <<>> THEN (IF cur = <<>> THEN acc ELSE Append(acc, cur))
    ELSE IF Head(s) \in Whitespace
         THEN WordsAcc(Tail(s), <<>>, IF cur = <<>> THEN acc ELSE Append(acc, cur))
         ELSE WordsAcc(Tail(s), Append(cur, Head(s)), acc)

Words(s) == WordsAcc(s, <<>>, <<>>)

\* The number of maximal whitespace runs of s that have a word on both sides.
InnerRuns(s) == IF Words(s) = <<>> THEN 0 ELSE Len(Words(s)) - 1

SpacesIn(s) == Cardinality({i \in 1..Len(s) : s[i] = " "})

\* C8: normalize is idempotent: normalize called on the value normalize
\* returned returns that value again, for the empty and the absent text too.
C8_NormalizeIdempotent ==
    nPc = "twice" => nOut2 = nOut

C8_Witness ==
    /\ nPc = "twice"
    /\ ~nIn.isNone
    /\ nOut # <<>>
    /\ nOut # nIn.str
    /\ \E i \in 1..Len(nOut) : nOut[i] = " "

\* C9: the value normalize returns has no leading or trailing whitespace and
\* no uppercase character; its only whitespace is single spaces, one for each
\* whitespace run of the input that lies between two words; its words are
\* the input's words in order, lowercased; an empty, absent or
\* whitespace-only input gives the empty string; and a text that differs
\* from the input in the case of a letter or in the kind or length of a
\* whitespace run normalizes to the same value.
C9_NormalizeShape ==
    nPc # "start" =>
        /\ nOut # <<>> => (nOut[1] \notin Whitespace /\ nOut[Len(nOut)] \notin Whitespace)
        /\ \A i \in 1..Len(nOut) : nOut[i] \notin Upper
        /\ \A i \in 1..Len(nOut) : nOut[i] \in Whitespace => nOut[i] = " "
        /\ \A i \in 1..(Len(nOut) - 1) : ~(nOut[i] = " " /\ nOut[i + 1] = " ")
        /\ SpacesIn(nOut) = (IF nIn.isNone THEN 0 ELSE InnerRuns(nIn.str))
        /\ Words(nOut) = (IF nIn.isNone THEN <<>>
                          ELSE [k \in 1..Len(Words(nIn.str)) |->
                                  [i \in 1..Len(Words(nIn.str)[k]) |->
                                      LowerChar(Words(nIn.str)[k][i])]])
        /\ (nIn.isNone \/ \A i \in 1..Len(nIn.str) : nIn.str[i] \in Whitespace)
               => nOut = <<>>
        /\ nPc = "variant" => nOut2 = nOut

C9_Witness ==
    /\ nPc = "variant"
    /\ nIn2 # nIn
    /\ Len(nIn.str) = MaxTextLen
    /\ nIn.str[1] \in Whitespace
    /\ nIn.str[Len(nIn.str)] \in Whitespace
    /\ \E i \in 1..Len(nIn.str) : nIn.str[i] \in Upper
    /\ \E i \in 1..Len(nOut) : nOut[i] = " "

====
